---- MODULE Spec2Model ----
(***************************************************************************)
(* Compile-time resolution of kernel launch parameters in                  *)
(* gunrock/cuda/launch_box.hxx.                                            *)
(*                                                                         *)
(* launch_box_t<sm_lp_v...> derives from device_launch_params_t<sm_lp_v...> *)
(* whose base class is computed by std::conditional_t.  Instantiating a    *)
(* class template instantiates its base class, so the compiler walks a     *)
(* chain of device_launch_params_t specialisations until the base is a     *)
(* launch parameter record, raise_not_found_error_t<void>, the undefined    *)
(* primary template, or a specialisation whose instantiation is already in *)
(* progress (an incomplete type).  One action of the model is one such      *)
(* instantiation.                                                          *)
(***************************************************************************)
EXTENDS Integers, Sequences, FiniteSets

\* Longest declared template parameter pack explored.
MaxLen == 3

\* #define TEST_SM 75
TEST_SM == 75

\* combined_ver of fallback_launch_params_t
FallbackVer == 0

\* The string literal of the static_assert.
NotFoundMessage == "launch_box_t could not find valid launch_params_t"

\* template<combined_ver_, launch_params_args_v...> struct sm_launch_params_t
\* with the enums it and its base launch_params_t declare.
sm_launch_params_t(ver, block, grid, shared) ==
  [combined_ver |-> ver, block_dimensions |-> block,
   grid_dimensions |-> grid, shared_memory_bytes |-> shared]

\* fallback_launch_params_t<args...> : sm_launch_params_t<0, args...>
fallback_launch_params_t(block, grid, shared) ==
  sm_launch_params_t(FallbackVer, block, grid, shared)

\* Compute capabilities used in declarations: sm_75_t, sm_61_t (SM_LAUNCH_PARAMS).
SmVersions == {75, 61}

\* <block, grid, shared> argument lists used in declarations.
LaunchArgs == {<<128, 64, 0>>, <<256, 32, 0>>}

\* The launch parameter types a launch box may be declared with.
Records ==
  {sm_launch_params_t(v, a[1], a[2], a[3]) : v \in SmVersions, a \in LaunchArgs}
  \cup {fallback_launch_params_t(a[1], a[2], a[3]) : a \in LaunchArgs}

\* Template parameter packs of at most n types.
Packs(n) == UNION {[1..k -> Records] : k \in 0..n}

\* The type void, the argument of raise_not_found_error_t.
VoidT == [name |-> "void"]

\* std::conditional_t<cond, a, b>: names both types, yields one of them.
conditional_t(cond, a, b) == IF cond THEN a ELSE b

\* The three kinds of base class a specialisation can name.
LaunchParamsBase(lp) == [kind |-> "sm_lp_t", lp |-> lp]
DeviceLaunchParamsBase(p) == [kind |-> "device_launch_params_t", pack |-> p]
RaiseNotFoundBase(T) == [kind |-> "raise_not_found_error_t", T |-> T]

IsFallback(lp) == lp.combined_ver = 0
MatchesDevice(lp) == lp.combined_ver = TEST_SM

\* device_launch_params_t<sm_lp_v..., sm_lp_t>: the head moved to the end.
MoveToEnd_Drop(p) == Tail(p)
MoveToEnd(p) == Append(Tail(p), Head(p))

\* Base class of device_launch_params_t<sm_lp_t, sm_lp_v...>.
RecursiveBase_NoFallbackMove(p) ==
  conditional_t(MatchesDevice(Head(p)),
    LaunchParamsBase(Head(p)),
    DeviceLaunchParamsBase(Tail(p)))
RecursiveBase_NoSmCheck(p) ==
  conditional_t(IsFallback(Head(p)),
    DeviceLaunchParamsBase(MoveToEnd(p)),
    DeviceLaunchParamsBase(Tail(p)))
RecursiveBase_FallbackFirst(p) ==
  conditional_t(IsFallback(Head(p)) \/ MatchesDevice(Head(p)),
    LaunchParamsBase(Head(p)),
    DeviceLaunchParamsBase(Tail(p)))
RecursiveBase_LastWins(p) ==
  conditional_t(IsFallback(Head(p)),
    DeviceLaunchParamsBase(MoveToEnd(p)),
    conditional_t(MatchesDevice(Head(p))
                    /\ \A i \in 2..Len(p) : ~MatchesDevice(p[i]),
      LaunchParamsBase(Head(p)),
      DeviceLaunchParamsBase(Tail(p))))
RecursiveBase_MoveAll(p) ==
  conditional_t(~MatchesDevice(Head(p)),
    DeviceLaunchParamsBase(MoveToEnd(p)),
    LaunchParamsBase(Head(p)))
RecursiveBase(p) ==
  conditional_t(IsFallback(Head(p)),
    DeviceLaunchParamsBase(MoveToEnd(p)),
    conditional_t(MatchesDevice(Head(p)),
      LaunchParamsBase(Head(p)),
      DeviceLaunchParamsBase(Tail(p))))

\* Base class of device_launch_params_t<sm_lp_t>.
LastBase_NeverRaise(p) == LaunchParamsBase(Head(p))
LastBase_RaiseHead(p) ==
  conditional_t(MatchesDevice(Head(p)) \/ IsFallback(Head(p)),
    LaunchParamsBase(Head(p)),
    RaiseNotFoundBase(Head(p)))
LastBase(p) ==
  conditional_t(MatchesDevice(Head(p)) \/ IsFallback(Head(p)),
    LaunchParamsBase(Head(p)),
    RaiseNotFoundBase(VoidT))

VARIABLES
  declared,  \* sm_lp_v... of launch_box_t, as written by the kernel author
  pack,      \* sm_lp_v... of the device_launch_params_t being instantiated
  seen,      \* packs whose instantiation began earlier and awaits its base
  status,    \* "instantiating", "resolved", "not_found", "undefined", "circular"
  result,    \* <<lp>> once a launch parameter record is the base, else <<>>
  diag,      \* <<diagnostic>> of the static_assert once it fired, else <<>>
  steps,     \* number of device_launch_params_t instantiations so far
  moves      \* number of those that moved their head to the end of the pack

vars == <<declared, pack, seen, status, result, diag, steps, moves>>

\* launch_box_t<sm_lp_v...> : device_launch_params_t<sm_lp_v...>
Init ==
  /\ declared \in Packs(MaxLen)
  /\ pack = declared
  /\ seen = {}
  /\ status = "instantiating"
  /\ result = <<>>
  /\ diag = <<>>
  /\ steps = 0
  /\ moves = 0

\* The class being instantiated derives from base.
Inherit(base) ==
  /\ steps' = steps + 1
  /\ declared' = declared
  /\ CASE base.kind = "sm_lp_t" ->
            /\ status' = "resolved"
            /\ result' = <<base.lp>>
            /\ UNCHANGED <<pack, seen, diag, moves>>
       [] base.kind = "raise_not_found_error_t" ->
            /\ status' = "not_found"
            /\ diag' = <<[message |-> NotFoundMessage, T |-> base.T]>>
            /\ UNCHANGED <<pack, seen, result, moves>>
       [] base.kind = "device_launch_params_t" ->
            /\ seen' = seen \cup {pack}
            /\ pack' = base.pack
            /\ status' = IF base.pack \in seen' THEN "circular"
                         ELSE "instantiating"
            /\ moves' = IF Len(base.pack) = Len(pack) THEN moves + 1 ELSE moves
            /\ UNCHANGED <<result, diag>>

\* template<typename... sm_lp_v> struct device_launch_params_t;  (no definition)
PrimaryTemplate ==
  /\ status = "instantiating"
  /\ Len(pack) = 0
  /\ status' = "undefined"
  /\ steps' = steps + 1
  /\ UNCHANGED <<declared, pack, seen, result, diag, moves>>

\* device_launch_params_t<sm_lp_t, sm_lp_v...> with a non-empty sm_lp_v
RecursiveCase ==
  /\ status = "instantiating"
  /\ Len(pack) >= 2
  /\ Inherit(RecursiveBase(pack))

\* device_launch_params_t<sm_lp_t>
LastCase ==
  /\ status = "instantiating"
  /\ Len(pack) = 1
  /\ Inherit(LastBase(pack))

Next == PrimaryTemplate \/ RecursiveCase \/ LastCase

Spec == Init /\ [][Next]_vars

(***************************************************************************)
(* Vocabulary of the properties.                                           *)
(***************************************************************************)

\* Positions of the declared records whose target is the active target.
MatchIdx == {i \in DOMAIN declared : declared[i].combined_ver = TEST_SM}

\* Positions of the declared fallback records.
FallbackIdx == {i \in DOMAIN declared : declared[i].combined_ver = 0}

\* Smallest element of a non-empty set of positions.
First(S) == CHOOSE i \in S : \A j \in S : i <= j

\* Number of occurrences of r in the sequence s.
Count(s, r) == Cardinality({i \in DOMAIN s : s[i] = r})

IsSpecific(lp) == lp.combined_ver # 0

\* The specific records of s, in the order of s.
Specifics(s) == SelectSeq(s, IsSpecific)

\* s is the sequence t without its first Len(t) - Len(s) elements.
IsSuffix(s, t) ==
  /\ Len(s) <= Len(t)
  /\ s = SubSeq(t, Len(t) - Len(s) + 1, Len(t))

\* The build stopped without a launch configuration because none applies.
Failed == status \in {"not_found", "undefined"}

\* Target values a diagnostic carries through its template argument.
TargetsNamed(d) == IF d.T = VoidT THEN {} ELSE {d.T.combined_ver}

\* C1: when exactly one declared record has the active target, resolution
\* does not fail and its result is exactly that record, wherever it stands
\* and whatever other records surround it.
C1_UniqueMatchResolved ==
  Cardinality(MatchIdx) = 1 =>
    /\ status \in {"instantiating", "resolved"}
    /\ status = "instantiating" => result = <<>>
    /\ status = "resolved" => result = <<declared[First(MatchIdx)]>>

C1_Witness ==
  /\ status = "resolved"
  /\ Cardinality(MatchIdx) = 1
  /\ First(MatchIdx) = 3
  /\ declared[1].combined_ver = 0
  /\ declared[2].combined_ver \notin {0, TEST_SM}

\* C2: when no declared record has the active target and exactly one is a
\* fallback, resolution does not fail and its result is that fallback,
\* wherever it stands among the specific records.
C2_UniqueFallbackResolved ==
  (MatchIdx = {} /\ Cardinality(FallbackIdx) = 1) =>
    /\ status \in {"instantiating", "resolved"}
    /\ status = "instantiating" => result = <<>>
    /\ status = "resolved" => result = <<declared[First(FallbackIdx)]>>

C2_Witness ==
  /\ status = "resolved"
  /\ MatchIdx = {}
  /\ FallbackIdx = {2}
  /\ Len(declared) = 3

\* C3: a set with neither a matching record nor a fallback (the empty set
\* included) ends in the failure outcome with no resolved configuration, and
\* the failure outcome is reached for such sets only.
C3_FailureIffNothingApplies ==
  /\ (MatchIdx = {} /\ FallbackIdx = {}) =>
       /\ status \in {"instantiating", "not_found", "undefined"}
       /\ result = <<>>
  /\ Failed => (MatchIdx = {} /\ FallbackIdx = {} /\ result = <<>>)
  /\ status = "undefined" <=> (declared = <<>> /\ steps > 0)

C3_Witness ==
  /\ status = "not_found"
  /\ Len(declared) >= 2
  /\ result = <<>>

\* C4: when the set holds both a record with the active target and a
\* fallback, the result has the active target and is never a fallback,
\* whether the fallback is declared before or after the match.
C4_ExactMatchOutranksFallback ==
  (MatchIdx # {} /\ FallbackIdx # {}) =>
    /\ status \in {"instantiating", "resolved"}
    /\ status = "resolved" =>
         /\ Len(result) = 1
         /\ result[1].combined_ver = TEST_SM
         /\ result[1].combined_ver # 0

C4_Witness ==
  /\ status = "resolved"
  /\ MatchIdx # {}
  /\ FallbackIdx # {}
  /\ First(FallbackIdx) < First(MatchIdx)

\* C5: resolution reaches a resolved record or the failure outcome for every
\* declared set and never comes back to a parameter pack it has processed.
C5_NeverRevisitsPack ==
  /\ pack \notin seen
  /\ status \in {"instantiating", "resolved", "not_found", "undefined"}

\* C6: when no record has the active target and one or more fallbacks are
\* declared, the result is the first-declared fallback; extra fallbacks are
\* silently accepted.
C6_FirstFallbackResolved ==
  (MatchIdx = {} /\ FallbackIdx # {}) =>
    /\ status \in {"instantiating", "resolved"}
    /\ status = "resolved" => result = <<declared[First(FallbackIdx)]>>

\* C7: when several declared records have the active target, the result is
\* the first of them in declaration order and scanning stops there: every
\* record declared before it was looked at once, none after it, also when
\* fallbacks are declared before or between the matching records.
C7_FirstMatchWins ==
  Cardinality(MatchIdx) >= 2 =>
    /\ status \in {"instantiating", "resolved"}
    /\ status = "resolved" =>
         /\ result = <<declared[First(MatchIdx)]>>
         /\ Head(pack) = declared[First(MatchIdx)]
         /\ steps = First(MatchIdx)
         /\ ~ENABLED Next

C7_Witness ==
  /\ status = "resolved"
  /\ Cardinality(MatchIdx) >= 2
  /\ declared[First(MatchIdx)] # declared[First(MatchIdx \ {First(MatchIdx)})]
  /\ \E i \in FallbackIdx : i < First(MatchIdx \ {First(MatchIdx)})

C9_Pre == MatchIdx # {} \/ Cardinality(FallbackIdx) <= 1

\* C9: for a set of n records that holds a matching record or at most one
\* fallback, resolution ends within n + 1 instantiations; each of them
\* removes the head of the pack or moves a fallback head to the end, and a
\* lone fallback is moved at most once.
C9_BoundedSteps ==
  /\ [](C9_Pre =>
          /\ steps <= Len(declared) + 1
          /\ steps = Len(declared) + 1 => status # "instantiating"
          /\ status # "circular"
          /\ Cardinality(FallbackIdx) = 1 => moves <= 1
          /\ moves <= Cardinality(FallbackIdx))
  /\ [][(C9_Pre /\ pack' # pack) =>
          \/ pack' = Tail(pack)
          \/ /\ Head(pack).combined_ver = 0
             /\ pack' = Append(Tail(pack), Head(pack))]_vars

C9_Witness ==
  /\ C9_Pre
  /\ MatchIdx = {}
  /\ status = "resolved"
  /\ moves = 1
  /\ steps = Len(declared) + 1
  /\ Len(declared) >= 3

\* C10: the working pack always holds every declared fallback, only specific
\* records with another target are dropped, the specific records left keep
\* their declaration order, the declared set never changes and a resolved
\* record is a declared record whose target is the active target or 0.
C10_PackPreservesDeclared ==
  /\ [](/\ \A r \in Records :
             r.combined_ver = 0 => Count(pack, r) = Count(declared, r)
        /\ IsSuffix(Specifics(pack), Specifics(declared))
        /\ \A i \in 1..(Len(Specifics(declared)) - Len(Specifics(pack))) :
             Specifics(declared)[i].combined_ver # TEST_SM
        /\ status = "resolved" =>
             /\ Len(result) = 1
             /\ \E i \in DOMAIN declared : declared[i] = result[1]
             /\ result[1].combined_ver \in {TEST_SM, 0}
        /\ status # "resolved" => result = <<>>)
  /\ [][declared' = declared]_vars

C10_Witness ==
  /\ moves >= 1
  /\ Len(pack) < Len(declared)
  /\ Len(Specifics(pack)) >= 1
  /\ FallbackIdx # {}

====
